---- MODULE Spec2Model ----
(***************************************************************************)
(* Model of storage/session_store.py: the SessionStore of a live-stream   *)
(* recorder.  Durable state is the two SQLite tables (sessions, gifts);   *)
(* in-memory state is the room -> SessionStats mapping and the            *)
(* SessionStats objects themselves.  Callers are threads; every method    *)
(* is cut into steps at the points where another thread can run: around   *)
(* the lock, and between the unlocked reads and writes of shared objects. *)
(* A locked section is one step: it is one SQLite transaction, committed  *)
(* before the lock is released, and nothing else touches the connection   *)
(* without the lock.                                                      *)
(***************************************************************************)
EXTENDS Integers, Sequences, FiniteSets, TLC

(* ---------------------------------------------------------------- bounds *)
\* rows the database may hold, sessions and gifts together
MaxRows == 3
\* last instant of the clock
MaxClock == 1
\* longest event log given to a SessionStats exercised alone
MaxLog == 3
\* largest limit asked of get_top_gifts and get_top_users
MaxLimit == 2

(* ------------------------------------------------------ program constants *)
\* end_session builds the summary from get_top_gifts(5) and get_top_users(5)
SummaryLimit == 5
\* get_session_history(room_id, limit=10)
DefaultHistoryLimit == 10

(* ---------------------------------------------------------------- inputs *)
Threads == {"t1", "t2"}
Caller == {"t1"}
Rooms == {42, 7}

Rose(user, uid, n) ==
    [user_name |-> user, user_id |-> uid, gift_id |-> "g1", gift_name |-> "Rose",
     gift_count |-> n, gift_value |-> 1]
Rocket(user, uid, n) ==
    [user_name |-> user, user_id |-> uid, gift_id |-> "g2", gift_name |-> "Rocket",
     gift_count |-> n, gift_value |-> 50]

\* arguments of add_gift used by the concurrent specification
GiftArgs == {Rose("Alice", "u1", 3), Rocket("Bob", "u2", 1)}
\* arguments used when a SessionStats is exercised alone
RankGiftArgs ==
    GiftArgs \cup {Rose("Bob", "u2", 3), Rocket("Alice", "u1", 1), Rose("Alice", "u1", 1),
                   Rose("Carol", "u3", 2), Rocket("Carol", "u3", 3)}
Limits == -1 .. MaxLimit
HistoryLimits == {0, 1, DefaultHistoryLimit}

(* ------------------------------------------------------- values and types *)
\* Python None and SQL NULL: an optional value is <<>> or <<v>>
None == << >>
Some(v) == << v >>

\* Python sequences whose kind matters once they are serialised
PyList(s) == [py |-> "list", items |-> s]
PyTuple(s) == [py |-> "tuple", items |-> s]

SessionIds == 1 .. MaxRows

VARIABLES
    sessions,   \* table sessions: row id i is sessions[i]
    gifts,      \* table gifts, in insertion order
    active,     \* SessionStore._active_sessions: room_id -> optional SessionStats
    aggs,       \* the SessionStats objects of this process, named by session_id
    lock,       \* SessionStore._lock: optional holder
    clock,      \* what time.time() returns
    pc,         \* per thread: where it is in the method it runs
    frame,      \* per thread: the locals of the method it runs
    ret         \* per thread: the last call and what it returned

vars == <<sessions, gifts, active, aggs, lock, clock, pc, frame, ret>>

IdleFrame ==
    [room_id |-> 0, now |-> 0, stats |-> None, event |-> None, acc |-> 0,
     unique_users |-> {}, summary |-> None, session_id |-> None, limit |-> 0]

NoRet == [op |-> "none", arg |-> << >>, val |-> None]

\* GiftEvent(timestamp=now, ...)
GiftEvent(ts, g) ==
    [timestamp |-> ts, user_name |-> g.user_name, user_id |-> g.user_id,
     gift_id |-> g.gift_id, gift_name |-> g.gift_name,
     gift_count |-> g.gift_count, gift_value |-> g.gift_value]

\* SessionStats(session_id=..., room_id=..., start_time=now)
SessionStats(sid, r, ts) ==
    [session_id |-> sid, room_id |-> r, start_time |-> ts, gifts |-> << >>,
     total_gift_count |-> 0, total_gift_value |-> 0, gift_user_count |-> 0]

\* INSERT INTO sessions (room_id, start_time): the other columns take their defaults
NewSessionRow(r, ts) ==
    [room_id |-> r, start_time |-> ts, end_time |-> None, duration |-> 0,
     total_gift_count |-> 0, total_gift_value |-> 0, gift_user_count |-> 0,
     summary_json |-> None]

\* INSERT INTO gifts (...)
NewGiftRow(sid, e) ==
    [session_id |-> sid, timestamp |-> e.timestamp, user_name |-> e.user_name,
     user_id |-> e.user_id, gift_id |-> e.gift_id, gift_name |-> e.gift_name,
     gift_count |-> e.gift_count, gift_value |-> e.gift_value]

(* ------------------------------------------------------------ SessionStats *)
RECURSIVE SumSeq(_)
SumSeq(s) == IF s = << >> THEN 0 ELSE s[1] + SumSeq(Tail(s))

\* position of key k in the sequence of keys ks, 0 when absent
RECURSIVE IndexOf(_, _, _)
IndexOf(ks, k, i) ==
    IF i > Len(ks) THEN 0 ELSE IF ks[i] = k THEN i ELSE IndexOf(ks, k, i + 1)

\* A dict as the sequence of its (key, value) entries in insertion order.
\* d[key] = d.get(key, 0) + amount
DictAdd(d, key, amount) ==
    LET keys == [i \in DOMAIN d |-> d[i].key]
        at == IndexOf(keys, key, 1)
    IN IF at = 0
       THEN Append(d, [key |-> key, value |-> 0 + amount])
       ELSE [d EXCEPT ![at].value = @ + amount]

\* mutant of InsertDesc: an entry goes before its equals (the sort is not stable)
RECURSIVE InsertDescUnstable(_, _)
InsertDescUnstable(s, x) ==
    IF s = << >> THEN << x >>
    ELSE IF s[1].value > x.value THEN << s[1] >> \o InsertDescUnstable(Tail(s), x)
    ELSE << x >> \o s

\* insert entry x in a sequence sorted by value descending, after its equals
RECURSIVE InsertDesc(_, _)
InsertDesc(s, x) ==
    IF s = << >> THEN << x >>
    ELSE IF s[1].value >= x.value THEN << s[1] >> \o InsertDesc(Tail(s), x)
    ELSE << x >> \o s

\* sorted(items, key=lambda x: x[1], reverse=True): stable, descending
RECURSIVE SortedDesc(_)
SortedDesc(s) ==
    IF s = << >> THEN << >>
    ELSE InsertDesc(SortedDesc(SubSeq(s, 1, Len(s) - 1)), s[Len(s)])

\* s[:limit] of a Python list: a negative limit counts from the end
Slice(s, limit) ==
    IF limit >= 0
    THEN SubSeq(s, 1, IF limit < Len(s) THEN limit ELSE Len(s))
    ELSE SubSeq(s, 1, IF Len(s) + limit > 0 THEN Len(s) + limit ELSE 0)

RECURSIVE GiftGroups(_)
GiftGroups(log) ==
    IF log = << >> THEN << >>
    ELSE LET g == log[Len(log)]
         IN DictAdd(GiftGroups(SubSeq(log, 1, Len(log) - 1)),
                    << g.user_name, g.gift_name >>, g.gift_count)

\* mutant of UserValues: the value of one unit is added, whatever the count
RECURSIVE UserValuesNoCount(_)
UserValuesNoCount(log) ==
    IF log = << >> THEN << >>
    ELSE LET g == log[Len(log)]
         IN DictAdd(UserValuesNoCount(SubSeq(log, 1, Len(log) - 1)),
                    g.user_name, g.gift_value)

RECURSIVE UserValues(_)
UserValues(log) ==
    IF log = << >> THEN << >>
    ELSE LET g == log[Len(log)]
         IN DictAdd(UserValues(SubSeq(log, 1, Len(log) - 1)),
                    g.user_name, g.gift_value * g.gift_count)

\* SessionStats.get_top_gifts: a list of (user_name, gift_name, total_count) tuples
get_top_gifts(log, limit) ==
    LET top == Slice(SortedDesc(GiftGroups(log)), limit)
    IN PyList([i \in DOMAIN top |->
                 PyTuple(<< top[i].key[1], top[i].key[2], top[i].value >>)])

\* SessionStats.get_top_users: a list of (user_name, total_value) tuples
get_top_users(log, limit) ==
    LET top == Slice(SortedDesc(UserValues(log)), limit)
    IN PyList([i \in DOMAIN top |-> PyTuple(<< top[i].key, top[i].value >>)])

\* SessionStats.get_unique_users
get_unique_users(log) == {log[i].user_name : i \in DOMAIN log}

\* SessionStats.add_gift run by one thread with no other thread in it
add_gift(stats, event) ==
    [stats EXCEPT !.gifts = Append(@, event),
                  !.total_gift_count = @ + event.gift_count,
                  !.total_gift_value = @ + event.gift_value * event.gift_count]

\* list(a_set): the elements once each, in an order the caller does not control
ListsOf(S) ==
    {s \in [1 .. Cardinality(S) -> S] : \A i, j \in DOMAIN s : i # j => s[i] # s[j]}

(* -------------------------------------------------------------------- json *)
\* json.dumps of the summary dict: lists and tuples both become JSON arrays
\* (a JSON array is a plain sequence, a JSON object a record)
json_dumps(summary) ==
    [top_gifts |-> [i \in DOMAIN summary.top_gifts.items |->
                      summary.top_gifts.items[i].items],
     top_users |-> [i \in DOMAIN summary.top_users.items |->
                      summary.top_users.items[i].items],
     unique_users |-> summary.unique_users.items]

\* json.loads of a stored summary: every JSON array becomes a list
json_loads(doc) ==
    [top_gifts |-> PyList([i \in DOMAIN doc.top_gifts |-> PyList(doc.top_gifts[i])]),
     top_users |-> PyList([i \in DOMAIN doc.top_users |-> PyList(doc.top_users[i])]),
     unique_users |-> PyList(doc.unique_users)]

(* ------------------------------------------------------------------- state *)
\* SessionStore.__init__ on an empty data directory, no call made yet
Init ==
    /\ sessions = << >>
    /\ gifts = << >>
    /\ active = [r \in Rooms |-> None]
    /\ aggs = [i \in SessionIds |-> None]
    /\ lock = None
    /\ clock = 0
    /\ pc = [t \in Threads |-> "idle"]
    /\ frame = [t \in Threads |-> IdleFrame]
    /\ ret = [t \in Threads |-> NoRet]

Goto(t, label) == pc' = [pc EXCEPT ![t] = label]
\* the method returns v to the caller of op(arg)
Return(t, op, arg, v) ==
    /\ pc' = [pc EXCEPT ![t] = "idle"]
    /\ frame' = [frame EXCEPT ![t] = IdleFrame]
    /\ ret' = [ret EXCEPT ![t] = [op |-> op, arg |-> arg, val |-> v]]
\* a new call: the caller has dropped the previous result
Enter(t) == ret' = [ret EXCEPT ![t] = NoRet]

\* rows in the database, and rows that calls under way are yet to insert
RowsClaimed ==
    Len(sessions) + Len(gifts)
    + Cardinality({u \in Threads : pc[u] \in {"ss_lock", "ss_txn", "ag_app", "ag_cnt",
                                               "ag_val", "ag_lock", "ag_txn"}})

\* SELECT id FROM sessions WHERE room_id = ? AND end_time IS NULL
OpenSessions(r) ==
    {i \in DOMAIN sessions : sessions[i].room_id = r /\ sessions[i].end_time = None}

(* ------------------------------------------------------------------- clock *)
\* time passes; time.time() is taken to never run backwards
Tick ==
    /\ clock < MaxClock
    /\ clock' = clock + 1
    /\ UNCHANGED <<sessions, gifts, active, aggs, lock, pc, frame, ret>>

(* -------------------------------------------------------------------- lock *)
\* mutant of AcquireLock: the with statement is entered without waiting
AcquireLockNoWait(t) ==
    /\ pc[t] \in {"ss_lock", "ag_lock", "es_lock", "gh_lock"}
    /\ lock' = Some(t)
    /\ pc' = [pc EXCEPT ![t] = CASE pc[t] = "ss_lock" -> "ss_txn"
                                [] pc[t] = "ag_lock" -> "ag_txn"
                                [] pc[t] = "es_lock" -> "es_txn"
                                [] pc[t] = "gh_lock" -> "gh_txn"]
    /\ UNCHANGED <<sessions, gifts, active, aggs, clock, frame, ret>>

\* with self._lock: entry.  A thread waits at a *_lock label until the lock is free.
AcquireLock(t) ==
    /\ pc[t] \in {"ss_lock", "ag_lock", "es_lock", "gh_lock"}
    /\ lock = None
    /\ lock' = Some(t)
    /\ Goto(t, CASE pc[t] = "ss_lock" -> "ss_txn"
                 [] pc[t] = "ag_lock" -> "ag_txn"
                 [] pc[t] = "es_lock" -> "es_txn"
                 [] pc[t] = "gh_lock" -> "gh_txn")
    /\ UNCHANGED <<sessions, gifts, active, aggs, clock, frame, ret>>

(* ----------------------------------------------------------- start_session *)
\* now = time.time(), then wait for the lock
StartSessionCall(t, r) ==
    /\ pc[t] = "idle"
    /\ RowsClaimed < MaxRows
    /\ frame' = [frame EXCEPT ![t] = [IdleFrame EXCEPT !.room_id = r, !.now = clock]]
    /\ Goto(t, "ss_lock")
    /\ Enter(t)
    /\ UNCHANGED <<sessions, gifts, active, aggs, lock, clock>>

\* mutant of CloseStale: the stale row is left open
CloseStaleSkipped(i, now) == sessions

\* the UPDATE that force-closes row i (i = 0: fetchone() found no open row)
CloseStale(i, now) ==
    IF i = 0 THEN sessions
    ELSE [sessions EXCEPT ![i].end_time = Some(now),
                          ![i].duration = now - sessions[i].start_time]

\* the locked section: SELECT the open row, UPDATE it, INSERT the new row, commit
StartSessionTxn(t) ==
    /\ pc[t] = "ss_txn"
    /\ LET r == frame[t].room_id
           now == frame[t].now
           open == OpenSessions(r)
       IN \E i \in (IF open = {} THEN {0} ELSE open) :
            sessions' = Append(CloseStale(i, now), NewSessionRow(r, now))
    /\ frame' = [frame EXCEPT ![t].session_id = Some(Len(sessions) + 1)]
    /\ lock' = None
    /\ Goto(t, "ss_reg")
    /\ UNCHANGED <<gifts, active, aggs, clock, ret>>

\* mutant of StartSessionRegister: the new aggregate takes over the log and the
\* totals of the one it replaces
StartSessionRegisterKeepsLog(t) ==
    /\ pc[t] = "ss_reg"
    /\ LET r == frame[t].room_id
           sid == frame[t].session_id[1]
           fresh == SessionStats(sid, r, frame[t].now)
       IN /\ aggs' = [aggs EXCEPT ![sid] =
                        IF active[r] = None THEN Some(fresh)
                        ELSE Some([aggs[active[r][1]][1] EXCEPT
                                     !.session_id = sid, !.start_time = frame[t].now])]
          /\ active' = [active EXCEPT ![r] = Some(sid)]
          /\ pc' = [pc EXCEPT ![t] = "idle"]
          /\ frame' = [frame EXCEPT ![t] = IdleFrame]
          /\ ret' = [ret EXCEPT ![t] =
                       [op |-> "start_session", arg |-> << r >>, val |-> Some(sid)]]
    /\ UNCHANGED <<sessions, gifts, lock, clock>>

\* stats = SessionStats(...); self._active_sessions[room_id] = stats; return stats
StartSessionRegister(t) ==
    /\ pc[t] = "ss_reg"
    /\ LET r == frame[t].room_id
           sid == frame[t].session_id[1]
       IN /\ aggs' = [aggs EXCEPT ![sid] = Some(SessionStats(sid, r, frame[t].now))]
          /\ active' = [active EXCEPT ![r] = Some(sid)]
          /\ Return(t, "start_session", << r >>, Some(sid))
    /\ UNCHANGED <<sessions, gifts, lock, clock>>

(* ---------------------------------------------------------------- add_gift *)
\* mutant of AddGiftCall: the call without an aggregate reports success
AddGiftCallAlwaysTrue(t, r, g) ==
    /\ pc[t] = "idle"
    /\ IF active[r] = None
       THEN /\ pc' = [pc EXCEPT ![t] = "idle"]
            /\ frame' = [frame EXCEPT ![t] = IdleFrame]
            /\ ret' = [ret EXCEPT ![t] = [op |-> "add_gift", arg |-> << r >>, val |-> TRUE]]
       ELSE /\ RowsClaimed < MaxRows
            /\ frame' = [frame EXCEPT ![t] =
                           [IdleFrame EXCEPT !.room_id = r, !.stats = active[r],
                                             !.now = clock,
                                             !.event = Some(GiftEvent(clock, g))]]
            /\ pc' = [pc EXCEPT ![t] = "ag_app"]
            /\ ret' = [ret EXCEPT ![t] = [op |-> "none", arg |-> << >>, val |-> << >>]]
    /\ UNCHANGED <<sessions, gifts, active, aggs, lock, clock>>

\* stats = self._active_sessions.get(room_id); without one, return False;
\* otherwise now = time.time() and the GiftEvent is built
AddGiftCall(t, r, g) ==
    /\ pc[t] = "idle"
    /\ IF active[r] = None
       THEN /\ Return(t, "add_gift", << r >>, FALSE)
            /\ UNCHANGED <<sessions, gifts, active, aggs, lock, clock>>
       ELSE /\ RowsClaimed < MaxRows
            /\ frame' = [frame EXCEPT ![t] =
                           [IdleFrame EXCEPT !.room_id = r, !.stats = active[r],
                                             !.now = clock,
                                             !.event = Some(GiftEvent(clock, g))]]
            /\ Goto(t, "ag_app")
            /\ Enter(t)
            /\ UNCHANGED <<sessions, gifts, active, aggs, lock, clock>>

\* SessionStats.add_gift: self.gifts.append(event), then the left operand of
\* self.total_gift_count += ... is loaded
AddGiftAppend(t) ==
    /\ pc[t] = "ag_app"
    /\ LET s == frame[t].stats[1]
       IN /\ aggs' = [aggs EXCEPT ![s] =
                        Some([@[1] EXCEPT !.gifts = Append(@, frame[t].event[1])])]
          /\ frame' = [frame EXCEPT ![t].acc = aggs[s][1].total_gift_count]
    /\ Goto(t, "ag_cnt")
    /\ UNCHANGED <<sessions, gifts, active, lock, clock, ret>>

\* self.total_gift_count is stored; the left operand of self.total_gift_value += ...
\* is loaded
AddGiftCount(t) ==
    /\ pc[t] = "ag_cnt"
    /\ LET s == frame[t].stats[1]
           e == frame[t].event[1]
       IN /\ aggs' = [aggs EXCEPT ![s] =
                        Some([@[1] EXCEPT !.total_gift_count = frame[t].acc + e.gift_count])]
          /\ frame' = [frame EXCEPT ![t].acc = aggs[s][1].total_gift_value]
    /\ Goto(t, "ag_val")
    /\ UNCHANGED <<sessions, gifts, active, lock, clock, ret>>

\* mutant of AddGiftValue: the value of one unit is added, whatever the count
AddGiftValueNoCount(t) ==
    /\ pc[t] = "ag_val"
    /\ aggs' = [aggs EXCEPT ![frame[t].stats[1]] =
                  Some([@[1] EXCEPT !.total_gift_value =
                                       frame[t].acc + frame[t].event[1].gift_value])]
    /\ pc' = [pc EXCEPT ![t] = "ag_lock"]
    /\ UNCHANGED <<sessions, gifts, active, lock, clock, frame, ret>>

\* self.total_gift_value is stored; then wait for the lock
AddGiftValue(t) ==
    /\ pc[t] = "ag_val"
    /\ LET s == frame[t].stats[1]
           e == frame[t].event[1]
       IN aggs' = [aggs EXCEPT ![s] =
                     Some([@[1] EXCEPT !.total_gift_value =
                                          frame[t].acc + e.gift_value * e.gift_count])]
    /\ Goto(t, "ag_lock")
    /\ UNCHANGED <<sessions, gifts, active, lock, clock, frame, ret>>

\* the locked section: INSERT INTO gifts, commit; return True
AddGiftTxn(t) ==
    /\ pc[t] = "ag_txn"
    /\ LET s == frame[t].stats[1]
       IN gifts' = Append(gifts, NewGiftRow(aggs[s][1].session_id, frame[t].event[1]))
    /\ lock' = None
    /\ Return(t, "add_gift", << frame[t].room_id >>, TRUE)
    /\ UNCHANGED <<sessions, active, aggs, clock>>

(* ------------------------------------------------------------- end_session *)
\* mutant of EndSessionCall: the aggregate is looked up with get, not pop
EndSessionCallNoEvict(t, r) ==
    /\ pc[t] = "idle"
    /\ active' = active
    /\ IF active[r] = None
       THEN /\ pc' = [pc EXCEPT ![t] = "idle"]
            /\ frame' = [frame EXCEPT ![t] = IdleFrame]
            /\ ret' = [ret EXCEPT ![t] =
                         [op |-> "end_session", arg |-> << r >>, val |-> << >>]]
       ELSE /\ frame' = [frame EXCEPT ![t] =
                           [IdleFrame EXCEPT !.room_id = r, !.stats = active[r],
                                             !.now = clock]]
            /\ pc' = [pc EXCEPT ![t] = "es_uniq"]
            /\ ret' = [ret EXCEPT ![t] = [op |-> "none", arg |-> << >>, val |-> << >>]]
    /\ UNCHANGED <<sessions, gifts, aggs, lock, clock>>

\* stats = self._active_sessions.pop(room_id, None); without one, return None;
\* otherwise now = time.time()
EndSessionCall(t, r) ==
    /\ pc[t] = "idle"
    /\ active' = [active EXCEPT ![r] = None]
    /\ IF active[r] = None
       THEN Return(t, "end_session", << r >>, None)
       ELSE /\ frame' = [frame EXCEPT ![t] =
                           [IdleFrame EXCEPT !.room_id = r, !.stats = active[r],
                                             !.now = clock]]
            /\ Goto(t, "es_uniq")
            /\ Enter(t)
    /\ UNCHANGED <<sessions, gifts, aggs, lock, clock>>

\* unique_users = stats.get_unique_users(); stats.gift_user_count = len(unique_users)
EndSessionUnique(t) ==
    /\ pc[t] = "es_uniq"
    /\ LET s == frame[t].stats[1]
           users == get_unique_users(aggs[s][1].gifts)
       IN /\ frame' = [frame EXCEPT ![t].unique_users = users]
          /\ aggs' = [aggs EXCEPT ![s] =
                        Some([@[1] EXCEPT !.gift_user_count = Cardinality(users)])]
    /\ Goto(t, "es_sum")
    /\ UNCHANGED <<sessions, gifts, active, lock, clock, ret>>

\* mutant of BuildSummary: only the first entry of each ranking is kept
BuildSummaryTopOne(log, users) ==
    [top_gifts |-> get_top_gifts(log, 1),
     top_users |-> get_top_users(log, 1),
     unique_users |-> PyList(users)]

\* the summary dict
BuildSummary(log, users) ==
    [top_gifts |-> get_top_gifts(log, SummaryLimit),
     top_users |-> get_top_users(log, SummaryLimit),
     unique_users |-> PyList(users)]

\* summary = {...}; then wait for the lock
EndSessionSummary(t) ==
    /\ pc[t] = "es_sum"
    /\ LET s == frame[t].stats[1]
       IN \E users \in ListsOf(frame[t].unique_users) :
            frame' = [frame EXCEPT ![t].summary =
                        Some(BuildSummary(aggs[s][1].gifts, users))]
    /\ Goto(t, "es_lock")
    /\ UNCHANGED <<sessions, gifts, active, aggs, lock, clock, ret>>

\* UPDATE sessions SET end_time, duration, totals, summary_json WHERE id = ?
FinalizeRow(row, stats, now, summary) ==
    [row EXCEPT !.end_time = Some(now),
                !.duration = now - stats.start_time,
                !.total_gift_count = stats.total_gift_count,
                !.total_gift_value = stats.total_gift_value,
                !.gift_user_count = stats.gift_user_count,
                !.summary_json = Some(json_dumps(summary))]

\* the locked section: the UPDATE, commit; return stats
EndSessionTxn(t) ==
    /\ pc[t] = "es_txn"
    /\ LET s == frame[t].stats[1]
           stats == aggs[s][1]
       IN sessions' = [sessions EXCEPT ![stats.session_id] =
                         FinalizeRow(@, stats, frame[t].now, frame[t].summary[1])]
    /\ lock' = None
    /\ Return(t, "end_session", << frame[t].room_id >>, frame[t].stats)
    /\ UNCHANGED <<gifts, active, aggs, clock>>

(* ------------------------------------------------------ get_active_session *)
GetActiveSession(t, r) ==
    /\ pc[t] = "idle"
    /\ Return(t, "get_active_session", << r >>, active[r])
    /\ UNCHANGED <<sessions, gifts, active, aggs, lock, clock>>

(* ----------------------------------------------------- get_session_history *)
GetSessionHistoryCall(t, r, n) ==
    /\ pc[t] = "idle"
    /\ frame' = [frame EXCEPT ![t] = [IdleFrame EXCEPT !.room_id = r, !.limit = n]]
    /\ Goto(t, "gh_lock")
    /\ Enter(t)
    /\ UNCHANGED <<sessions, gifts, active, aggs, lock, clock>>

\* mutant of ClosedSessions: the end_time condition is missing
AllSessions(r) == {i \in DOMAIN sessions : sessions[i].room_id = r}

\* WHERE room_id = ? AND end_time IS NOT NULL
ClosedSessions(r) ==
    {i \in DOMAIN sessions : sessions[i].room_id = r /\ sessions[i].end_time # None}

\* ORDER BY start_time DESC: every order of the ids in S with start_time
\* descending; rows with equal start_time come in an order SQLite chooses
OrderedByStartDesc(S) ==
    {s \in ListsOf(S) :
       \A i, j \in DOMAIN s :
          i < j => sessions[s[i]].start_time >= sessions[s[j]].start_time}

\* LIMIT ?: a negative limit is no limit
SqlLimit(s, n) ==
    IF n < 0 \/ n >= Len(s) THEN s ELSE SubSeq(s, 1, n)

\* one dict of the returned list
HistoryEntry(i) ==
    [id |-> i, room_id |-> sessions[i].room_id,
     start_time |-> sessions[i].start_time, end_time |-> sessions[i].end_time,
     duration |-> sessions[i].duration,
     total_gift_count |-> sessions[i].total_gift_count,
     total_gift_value |-> sessions[i].total_gift_value,
     gift_user_count |-> sessions[i].gift_user_count,
     summary |-> IF sessions[i].summary_json # None
                 THEN Some(json_loads(sessions[i].summary_json[1]))
                 ELSE None]

\* the locked section (the SELECT and fetchall), then the list of dicts is built
GetSessionHistoryTxn(t) ==
    /\ pc[t] = "gh_txn"
    /\ \E ids \in OrderedByStartDesc(ClosedSessions(frame[t].room_id)) :
         LET rows == SqlLimit(ids, frame[t].limit)
         IN Return(t, "get_session_history", << frame[t].room_id, frame[t].limit >>,
                   [k \in DOMAIN rows |-> HistoryEntry(rows[k])])
    /\ lock' = None
    /\ UNCHANGED <<sessions, gifts, active, aggs, clock>>

(* ----------------------------------------------------------------- restart *)
\* the process stops and a new SessionStore is constructed on the same
\* database: committed rows stay, every in-memory object is gone
Restart ==
    /\ active' = [r \in Rooms |-> None]
    /\ aggs' = [i \in SessionIds |-> None]
    /\ lock' = None
    /\ pc' = [t \in Threads |-> "idle"]
    /\ frame' = [t \in Threads |-> IdleFrame]
    /\ ret' = [t \in Threads |-> NoRet]
    /\ UNCHANGED <<sessions, gifts, clock>>

(* ---------------------------------------------------------- specifications *)
Writers(t, args) ==
    \/ \E r \in Rooms : StartSessionCall(t, r)
    \/ StartSessionTxn(t)
    \/ StartSessionRegister(t)
    \/ \E r \in Rooms, g \in args : AddGiftCall(t, r, g)
    \/ AddGiftAppend(t)
    \/ AddGiftCount(t)
    \/ AddGiftValue(t)
    \/ AddGiftTxn(t)
    \/ \E r \in Rooms : EndSessionCall(t, r)
    \/ EndSessionUnique(t)
    \/ EndSessionSummary(t)
    \/ EndSessionTxn(t)
    \/ AcquireLock(t)

Readers(t, limits) ==
    \/ \E r \in Rooms : GetActiveSession(t, r)
    \/ \E r \in Rooms, n \in limits : GetSessionHistoryCall(t, r, n)
    \/ GetSessionHistoryTxn(t)

\* concurrent callers of start_session, add_gift and end_session
Next ==
    \/ \E t \in Threads : Writers(t, GiftArgs)
    \/ Tick

Spec == Init /\ [][Next]_vars

\* one caller making one call at a time, of any method, across restarts
SeqNext ==
    \/ \E t \in Caller : Writers(t, GiftArgs) \/ Readers(t, HistoryLimits)
    \/ Tick
    \/ Restart

SeqSpec == Init /\ [][SeqNext]_vars

(* ------------------------------------------------- SessionStats on its own *)
\* The caller holds the SessionStats that start_session(room) returned and calls
\* its methods directly, one call at a time.
StatsAddGift(t, r, g) ==
    /\ pc[t] = "idle"
    /\ active[r] # None
    /\ LET s == active[r][1]
       IN /\ Len(aggs[s][1].gifts) < MaxLog
          /\ aggs' = [aggs EXCEPT ![s] = Some(add_gift(@[1], GiftEvent(clock, g)))]
    /\ Return(t, "stats.add_gift", << r >>, None)
    /\ UNCHANGED <<sessions, gifts, active, lock, clock>>

StatsTopGifts(t, r, limit) ==
    /\ pc[t] = "idle"
    /\ active[r] # None
    /\ Return(t, "get_top_gifts", << r, limit >>,
              get_top_gifts(aggs[active[r][1]][1].gifts, limit))
    /\ UNCHANGED <<sessions, gifts, active, aggs, lock, clock>>

StatsTopUsers(t, r, limit) ==
    /\ pc[t] = "idle"
    /\ active[r] # None
    /\ Return(t, "get_top_users", << r, limit >>,
              get_top_users(aggs[active[r][1]][1].gifts, limit))
    /\ UNCHANGED <<sessions, gifts, active, aggs, lock, clock>>

\* the store right after start_session(r) returned to the caller, for some room r
RankInit ==
    \E r \in Rooms :
        /\ sessions = << NewSessionRow(r, 0) >>
        /\ gifts = << >>
        /\ active = [x \in Rooms |-> IF x = r THEN Some(1) ELSE None]
        /\ aggs = [i \in SessionIds |-> IF i = 1 THEN Some(SessionStats(1, r, 0)) ELSE None]
        /\ lock = None
        /\ clock = 0
        /\ pc = [t \in Threads |-> "idle"]
        /\ frame = [t \in Threads |-> IdleFrame]
        /\ ret = [t \in Threads |->
                    IF t \in Caller
                    THEN [op |-> "start_session", arg |-> << r >>, val |-> Some(1)]
                    ELSE NoRet]

RankNext ==
    \E t \in Caller, r \in Rooms :
        \/ \E g \in RankGiftArgs : StatsAddGift(t, r, g)
        \/ \E limit \in Limits : StatsTopGifts(t, r, limit)
        \/ \E limit \in Limits : StatsTopUsers(t, r, limit)

RankSpec == RankInit /\ [][RankNext]_vars

(* --------------------------------------------------------- storage failure *)
\* No method has a try statement: an sqlite3.Error raised by a statement of a
\* locked section leaves the with block, which releases the lock, and goes on
\* to the caller.  The failing statement is taken to be the first of the
\* section that writes (or, in get_session_history, the SELECT), so the
\* section leaves the tables as they were.
Raise(t, op, arg) ==
    /\ pc' = [pc EXCEPT ![t] = "idle"]
    /\ frame' = [frame EXCEPT ![t] = IdleFrame]
    /\ ret' = [ret EXCEPT ![t] =
                 [op |-> op, arg |-> arg, val |-> None, exc |-> "sqlite3.Error"]]

\* what the caller got is an exception, not a value
Raised(x) == "exc" \in DOMAIN x

\* start_session: the exception passes lines 231-240, nothing is registered
StartSessionTxnFails(t) ==
    /\ pc[t] = "ss_txn"
    /\ lock' = None
    /\ Raise(t, "start_session", << frame[t].room_id >>)
    /\ UNCHANGED <<sessions, gifts, active, aggs, clock>>

\* mutant of AddGiftTxnFails: the lock is not released on the way out
AddGiftTxnFailsLocked(t) ==
    /\ pc[t] = "ag_txn"
    /\ pc' = [pc EXCEPT ![t] = "idle"]
    /\ frame' = [frame EXCEPT ![t] = IdleFrame]
    /\ ret' = [ret EXCEPT ![t] =
                 [op |-> "add_gift", arg |-> << frame[t].room_id >>, val |-> None,
                  exc |-> "sqlite3.Error"]]
    /\ UNCHANGED <<sessions, gifts, active, aggs, lock, clock>>

\* mutant of AddGiftTxnFails: the event is taken back out of the aggregate
AddGiftTxnFailsRolledBack(t) ==
    /\ pc[t] = "ag_txn"
    /\ lock' = None
    /\ LET s == frame[t].stats[1]
           e == frame[t].event[1]
           log == aggs[s][1].gifts
       IN aggs' = [aggs EXCEPT ![s] =
                     Some([@[1] EXCEPT !.gifts = SubSeq(log, 1, Len(log) - 1),
                                       !.total_gift_count = @ - e.gift_count,
                                       !.total_gift_value = @ - e.gift_value * e.gift_count])]
    /\ pc' = [pc EXCEPT ![t] = "idle"]
    /\ frame' = [frame EXCEPT ![t] = IdleFrame]
    /\ ret' = [ret EXCEPT ![t] =
                 [op |-> "add_gift", arg |-> << frame[t].room_id >>, val |-> None,
                  exc |-> "sqlite3.Error"]]
    /\ UNCHANGED <<sessions, gifts, active, clock>>

\* add_gift: the INSERT raises after stats.add_gift(event) has run (the guard
\* keeps the logs finite: a failed add_gift grows the log and leaves no row)
AddGiftTxnFails(t) ==
    /\ pc[t] = "ag_txn"
    /\ Len(aggs[frame[t].stats[1]][1].gifts) + Len(sessions) <= MaxRows
    /\ lock' = None
    /\ Raise(t, "add_gift", << frame[t].room_id >>)
    /\ UNCHANGED <<sessions, gifts, active, aggs, clock>>

\* end_session: the UPDATE raises after the aggregate was popped
EndSessionTxnFails(t) ==
    /\ pc[t] = "es_txn"
    /\ lock' = None
    /\ Raise(t, "end_session", << frame[t].room_id >>)
    /\ UNCHANGED <<sessions, gifts, active, aggs, clock>>

\* get_session_history: the SELECT raises
GetSessionHistoryTxnFails(t) ==
    /\ pc[t] = "gh_txn"
    /\ lock' = None
    /\ Raise(t, "get_session_history", << frame[t].room_id, frame[t].limit >>)
    /\ UNCHANGED <<sessions, gifts, active, aggs, clock>>

StorageFails(t) ==
    \/ StartSessionTxnFails(t)
    \/ AddGiftTxnFails(t)
    \/ EndSessionTxnFails(t)
    \/ GetSessionHistoryTxnFails(t)

\* arguments used on the store whose database may fail
FaultGiftArgs == {Rose("Alice", "u1", 3)}
FaultHistoryLimits == {1}

\* one caller making one call at a time on a store whose database may fail
FaultNext ==
    \/ \E t \in Caller :
          Writers(t, FaultGiftArgs) \/ Readers(t, FaultHistoryLimits) \/ StorageFails(t)
    \/ Tick
    \/ Restart

FaultSpec == Init /\ [][FaultNext]_vars

(* ------------------------------------------------ the lock under contention *)
\* Two threads calling every method on one room, with a database that may fail.
LockRooms == {7}

\* a method is called
Calls(t) ==
    \/ \E r \in LockRooms : StartSessionCall(t, r)
    \/ \E r \in LockRooms, g \in FaultGiftArgs : AddGiftCall(t, r, g)
    \/ \E r \in LockRooms : EndSessionCall(t, r)
    \/ \E r \in LockRooms : GetActiveSession(t, r)
    \/ \E r \in LockRooms, n \in FaultHistoryLimits : GetSessionHistoryCall(t, r, n)

\* a method under way takes its next step, other than entering the lock
Runs(t) ==
    \/ StartSessionTxn(t)
    \/ StartSessionRegister(t)
    \/ AddGiftAppend(t)
    \/ AddGiftCount(t)
    \/ AddGiftValue(t)
    \/ AddGiftTxn(t)
    \/ EndSessionUnique(t)
    \/ EndSessionSummary(t)
    \/ EndSessionTxn(t)
    \/ GetSessionHistoryTxn(t)
    \/ StorageFails(t)

LockNext == \E t \in Threads : Calls(t) \/ Runs(t) \/ AcquireLock(t)

LockSpec == Init /\ [][LockNext]_vars

\* Scheduling: a thread that can run does run, and a thread waiting for the lock
\* gets it if it is free again and again.  No method is ever bound to be called.
Fairness ==
    \A t \in Threads : WF_vars(Runs(t)) /\ SF_vars(AcquireLock(t))

\* Under fairness each thread has its own methods to call, and the calls that
\* insert a row stop one row short of MaxRows.
LiveCalls(t) ==
    \/ /\ t = "t1"
       /\ \E r \in LockRooms :
             \/ (RowsClaimed < MaxRows - 1 /\ StartSessionCall(t, r))
             \/ EndSessionCall(t, r)
             \/ GetActiveSession(t, r)
    \/ /\ t = "t2"
       /\ \E r \in LockRooms :
             \/ \E g \in FaultGiftArgs :
                   RowsClaimed < MaxRows - 1 /\ AddGiftCall(t, r, g)
             \/ \E n \in FaultHistoryLimits : GetSessionHistoryCall(t, r, n)

LiveNext == \E t \in Threads : LiveCalls(t) \/ Runs(t) \/ AcquireLock(t)

LockLiveSpec == Init /\ [][LiveNext]_vars /\ Fairness

(* ------------------------------------------------------------------ claims *)
AddGiftLabels == {"ag_app", "ag_cnt", "ag_val", "ag_lock", "ag_txn"}

\* C1: under any interleaving of start_session, add_gift and end_session calls by
\* concurrent callers, every room has at most one session row with end_time NULL.
C1_OneOpenSessionPerRoom ==
    \A r \in Rooms :
        Cardinality({i \in DOMAIN sessions :
                       sessions[i].room_id = r /\ sessions[i].end_time = None}) <= 1

\* two callers started a session for the same room at once: both transactions
\* are done, the first one's row was force-closed by the second
C1_Witness ==
    \E t, u \in Threads :
        /\ t # u
        /\ pc[t] = "ss_reg" /\ pc[u] = "ss_reg"
        /\ frame[t].room_id = frame[u].room_id
        /\ \E i, j \in DOMAIN sessions :
              /\ sessions[i].room_id = frame[t].room_id
              /\ sessions[j].room_id = frame[t].room_id
              /\ sessions[i].end_time # None
              /\ sessions[j].end_time = None

\* C2: whenever no add_gift is under way on an aggregate, its total_gift_count is
\* the sum of gift_count over its log and its total_gift_value the sum of
\* gift_value * gift_count over its log.
C2_TotalsMatchLog ==
    \A s \in SessionIds :
        (/\ aggs[s] # None
         /\ ~ \E t \in Threads : pc[t] \in AddGiftLabels /\ frame[t].stats = Some(s))
        => LET log == aggs[s][1].gifts
           IN /\ aggs[s][1].total_gift_count
                   = SumSeq([i \in DOMAIN log |-> log[i].gift_count])
              /\ aggs[s][1].total_gift_value
                   = SumSeq([i \in DOMAIN log |-> log[i].gift_value * log[i].gift_count])

\* C3: when start_session finds an open row for its room, the step that inserts
\* the new row leaves the old row with end_time set and
\* duration = end_time - start_time >= 0, so that no state shows both open; the new
\* id is the id of no existing row; and no closed row is ever open again.
C3_StaleClosedBeforeNewOpens ==
    [][/\ \A t \in Threads :
            (pc[t] = "ss_txn" /\ pc'[t] = "ss_reg")
            => /\ \A i \in OpenSessions(frame[t].room_id) :
                     /\ sessions'[i].end_time # None
                     /\ sessions'[i].duration
                          = sessions'[i].end_time[1] - sessions'[i].start_time
                     /\ sessions'[i].duration >= 0
               /\ frame'[t].session_id[1] \notin DOMAIN sessions
               /\ frame'[t].session_id[1] \in DOMAIN sessions'
               /\ sessions'[frame'[t].session_id[1]].end_time = None
       /\ \A i \in DOMAIN sessions :
            sessions[i].end_time # None
            => (i \in DOMAIN sessions' /\ sessions'[i].end_time # None)]_vars

\* C4: add_gift on a room with no registered aggregate returns False and leaves
\* the mapping, every aggregate and both tables as they were; and add_gift goes
\* past its check only when the room has an aggregate.
C4_AddGiftWithoutAggregate ==
    [][\A t \in Threads :
         /\ (pc[t] = "idle" /\ pc'[t] = "idle" /\ ret'[t] # ret[t]
             /\ ret'[t].op = "add_gift")
            => /\ ret'[t].val = FALSE
               /\ active[ret'[t].arg[1]] = None
               /\ UNCHANGED <<active, aggs, sessions, gifts>>
         /\ (pc[t] = "idle" /\ pc'[t] = "ag_app")
            => active[frame'[t].room_id] # None]_vars

\* add_gift returned False for a room whose only trace is an open row left in
\* the database by the process that ran before the restart
C4_Witness ==
    \E t \in Threads :
        /\ ret[t].op = "add_gift"
        /\ ret[t].val = FALSE
        /\ OpenSessions(ret[t].arg[1]) # {}
        /\ active[ret[t].arg[1]] = None
        /\ \A s \in SessionIds : aggs[s] = None

\* C5: once end_session(r) has returned, with an aggregate or with None, the
\* mapping holds nothing for r, and get_active_session(r) returns what the
\* mapping holds, until start_session(r) registers an aggregate: only its
\* registering step fills an empty entry. end_session on a room without an
\* aggregate returns None and changes no row.
C5_EvictedUntilRegistered ==
    [][/\ \A t \in Threads :
            /\ (pc[t] = "idle" /\ pc'[t] = "es_uniq")
               => active'[frame'[t].room_id] = None
            /\ ret'[t].op = "end_session" => active'[ret'[t].arg[1]] = None
            /\ (pc[t] = "idle" /\ ret'[t] # ret[t] /\ ret'[t].op = "end_session")
               => /\ ret'[t].val = None
                  /\ active[ret'[t].arg[1]] = None
                  /\ UNCHANGED <<sessions, gifts>>
            /\ (pc[t] = "idle" /\ ret'[t] # ret[t] /\ ret'[t].op = "get_active_session")
               => ret'[t].val = active'[ret'[t].arg[1]]
       /\ \A r \in Rooms :
            (active[r] = None /\ active'[r] # None)
            => \E t \in Threads :
                  /\ pc[t] = "ss_reg" /\ pc'[t] = "idle"
                  /\ frame[t].room_id = r
                  /\ ret'[t].op = "start_session"]_vars

\* a session was started, ended by end_session, and get_active_session then
\* returned None for its room
C5_Witness ==
    \E t \in Threads :
        /\ ret[t].op = "get_active_session"
        /\ ret[t].val = None
        /\ \E i \in DOMAIN sessions :
              /\ sessions[i].room_id = ret[t].arg[1]
              /\ sessions[i].summary_json # None

\* C6: for a limit n >= 0, get_session_history(r, n) returns exactly the rows of
\* room r whose end_time is not NULL, newest start_time first, cut to the first
\* n: every entry is such a row, no row comes twice, a row left out starts no
\* later than any row returned, and no open row or row of another room is there.
C6_HistoryIsClosedSessionsNewestFirst ==
    \A t \in Threads :
        (ret[t].op = "get_session_history" /\ ret[t].arg[2] >= 0)
        => LET r == ret[t].arg[1]
               n == ret[t].arg[2]
               res == ret[t].val
               closed == {i \in DOMAIN sessions :
                            sessions[i].room_id = r /\ sessions[i].end_time # None}
               ids == {res[k].id : k \in DOMAIN res}
           IN /\ ids \subseteq closed
              /\ \A k \in DOMAIN res :
                    /\ res[k].room_id = r
                    /\ res[k].end_time = sessions[res[k].id].end_time
                    /\ res[k].end_time # None
                    /\ res[k].start_time = sessions[res[k].id].start_time
                    /\ res[k].duration = sessions[res[k].id].duration
                    /\ res[k].total_gift_count = sessions[res[k].id].total_gift_count
                    /\ res[k].total_gift_value = sessions[res[k].id].total_gift_value
                    /\ res[k].gift_user_count = sessions[res[k].id].gift_user_count
              /\ \A k, l \in DOMAIN res : k # l => res[k].id # res[l].id
              /\ Len(res) = IF n < Cardinality(closed) THEN n ELSE Cardinality(closed)
              /\ \A k, l \in DOMAIN res : k < l => res[k].start_time >= res[l].start_time
              /\ \A i \in closed \ ids : \A k \in DOMAIN res :
                    sessions[i].start_time <= res[k].start_time

\* the room has two closed sessions, one of them force-closed by start_session,
\* and an open one; a history of limit 1 returned one entry
C6_Witness ==
    \E t \in Threads :
        /\ ret[t].op = "get_session_history"
        /\ ret[t].arg[2] = 1
        /\ Len(ret[t].val) = 1
        /\ Cardinality(ClosedSessions(ret[t].arg[1])) = 2
        /\ OpenSessions(ret[t].arg[1]) # {}
        /\ \E i \in ClosedSessions(ret[t].arg[1]) : sessions[i].summary_json = None
        /\ \E i \in ClosedSessions(ret[t].arg[1]) : sessions[i].summary_json # None

\* a list of tuples read back from JSON: the same entries, each one a list
AsLists(l) == PyList([i \in DOMAIN l.items |-> PyList(l.items[i].items)])

\* the summary of history entry e is the one end_session built from log, with
\* each ranking passed through conv
SummaryMatches(e, log, conv(_)) ==
    /\ e.summary # None
    /\ e.summary[1].top_gifts = conv(get_top_gifts(log, SummaryLimit))
    /\ e.summary[1].top_users = conv(get_top_users(log, SummaryLimit))
    /\ e.summary[1].unique_users.py = "list"
    /\ Len(e.summary[1].unique_users.items) = Cardinality(get_unique_users(log))
    /\ {e.summary[1].unique_users.items[i] :
          i \in DOMAIN e.summary[1].unique_users.items} = get_unique_users(log)

SameValue(v) == v

HistoryEntries ==
    {e \in UNION {{ret[t].val[k] : k \in DOMAIN ret[t].val} :
                    t \in {u \in Threads : ret[u].op = "get_session_history"}} : TRUE}

\* C7 as stated: the summary get_session_history returns for a session ended by
\* end_session is identical to the one built at end-session (top_gifts =
\* get_top_gifts(5), top_users = get_top_users(5), unique_users the distinct user
\* names of the log); a session closed without a summary comes back with None.
C7_SummaryIdentical ==
    \A e \in HistoryEntries :
        /\ sessions[e.id].summary_json = None => e.summary = None
        /\ (sessions[e.id].summary_json # None /\ aggs[e.id] # None)
           => SummaryMatches(e, aggs[e.id][1].gifts, SameValue)

\* C7 as amended: the same, except that every (user, gift, count) and
\* (user, value) tuple comes back as a list.
C7_SummaryRoundTrip ==
    \A e \in HistoryEntries :
        /\ sessions[e.id].summary_json = None => e.summary = None
        /\ (sessions[e.id].summary_json # None /\ aggs[e.id] # None)
           => SummaryMatches(e, aggs[e.id][1].gifts, AsLists)

\* the history returned a session that end_session closed after two gifts of two
\* users
C7_Witness ==
    \E e \in HistoryEntries :
        /\ e.summary # None
        /\ aggs[e.id] # None
        /\ Len(e.summary[1].top_gifts.items) = 2
        /\ Len(e.summary[1].unique_users.items) = 2

\* the arguments of an add_gift call, as stored in a gifts row
IsGiftRow(row, sid, g) ==
    /\ row.session_id = sid
    /\ row.user_name = g.user_name /\ row.user_id = g.user_id
    /\ row.gift_id = g.gift_id /\ row.gift_name = g.gift_name
    /\ row.gift_count = g.gift_count /\ row.gift_value = g.gift_value

\* start_session(42), add_gift(Alice, Rose, 3, 1), add_gift(Bob, Rocket, 1, 50) and
\* end_session(42) have run on a fresh store, and end_session has just returned
ScenarioDone(t) ==
    /\ ret[t].op = "end_session" /\ ret[t].arg = << 42 >> /\ ret[t].val # None
    /\ Len(sessions) = 1 /\ sessions[1].room_id = 42
    /\ Len(gifts) = 2
    /\ IsGiftRow(gifts[1], 1, Rose("Alice", "u1", 3))
    /\ IsGiftRow(gifts[2], 1, Rocket("Bob", "u2", 1))

\* C8: on a fresh store, start_session(42) assigns id 1, the two add_gift calls
\* return True, and end_session(42) returns the aggregate with total_gift_count 4,
\* total_gift_value 53, gift_user_count 2 and get_top_users(5) =
\* [(Bob, 50), (Alice, 3)]; the session row stores the same totals.
C8_Scenario ==
    \A t \in Threads :
        /\ (ret[t].op = "start_session" /\ Len(sessions) = 1) => ret[t].val = Some(1)
        /\ (ret[t].op = "add_gift" /\ active[ret[t].arg[1]] # None) => ret[t].val = TRUE
        /\ ScenarioDone(t)
           => /\ ret[t].val = Some(1)
              /\ aggs[1] # None
              /\ aggs[1][1].session_id = 1
              /\ aggs[1][1].total_gift_count = 4
              /\ aggs[1][1].total_gift_value = 53
              /\ aggs[1][1].gift_user_count = 2
              /\ get_top_users(aggs[1][1].gifts, SummaryLimit)
                   = PyList(<< PyTuple(<< "Bob", 50 >>), PyTuple(<< "Alice", 3 >>) >>)
              /\ sessions[1].end_time # None
              /\ sessions[1].total_gift_count = 4
              /\ sessions[1].total_gift_value = 53
              /\ sessions[1].gift_user_count = 2

C8_Witness == \E t \in Threads : ScenarioDone(t)

(* The rankings, stated without the dict and the sort that compute them. *)
\* the log of the aggregate the caller of t's last call holds
LogOf(t) == aggs[active[ret[t].arg[1]][1]][1].gifts

Least(n, m) == IF n < m THEN n ELSE m

\* index of the first event of the log whose key is k
FirstSeen(log, key(_), k) ==
    CHOOSE i \in DOMAIN log :
        key(log[i]) = k /\ \A j \in DOMAIN log : key(log[j]) = k => i <= j

\* sum of weight over the events of the log whose key is k
GroupTotal(log, key(_), weight(_), k) ==
    SumSeq([i \in DOMAIN log |-> IF key(log[i]) = k THEN weight(log[i]) ELSE 0])

\* group a comes before group b: larger total, or equal total and seen first
RanksBefore(log, key(_), weight(_), a, b) ==
    \/ GroupTotal(log, key, weight, a) > GroupTotal(log, key, weight, b)
    \/ /\ GroupTotal(log, key, weight, a) = GroupTotal(log, key, weight, b)
       /\ FirstSeen(log, key, a) < FirstSeen(log, key, b)

\* res lists, as tuples key + (total), the first n groups of the log in ranking order
IsRanking(res, log, key(_), weight(_), keyOf(_), n) ==
    LET groups == {key(log[i]) : i \in DOMAIN log}
        listed == {keyOf(res.items[k].items) : k \in DOMAIN res.items}
    IN /\ res.py = "list"
       /\ Len(res.items) = Least(n, Cardinality(groups))
       /\ \A k \in DOMAIN res.items :
             /\ res.items[k].py = "tuple"
             /\ keyOf(res.items[k].items) \in groups
             /\ res.items[k].items[Len(res.items[k].items)]
                  = GroupTotal(log, key, weight, keyOf(res.items[k].items))
       /\ \A k, l \in DOMAIN res.items :
             k < l => RanksBefore(log, key, weight, keyOf(res.items[k].items),
                                  keyOf(res.items[l].items))
       /\ \A g \in groups \ listed : \A k \in DOMAIN res.items :
             RanksBefore(log, key, weight, keyOf(res.items[k].items), g)

GiftKey(e) == << e.user_name, e.gift_name >>
GiftWeight(e) == e.gift_count
GiftKeyOf(items) == << items[1], items[2] >>
TopGiftsShape(res) == \A k \in DOMAIN res.items : Len(res.items[k].items) = 3

UserKey(e) == e.user_name
UserWeight(e) == e.gift_value * e.gift_count
UserKeyOf(items) == items[1]
TopUsersShape(res) == \A k \in DOMAIN res.items : Len(res.items[k].items) = 2

\* C9 as stated: for every log and every limit, get_top_gifts(limit) is the
\* reference ranking (events grouped by (user_name, gift_name), gift_count summed,
\* larger sums first, equal sums in first-seen order) cut to its first limit
\* groups, and so has at most limit entries.
C9_TopGiftsAnyLimit ==
    \A t \in Threads :
        ret[t].op = "get_top_gifts"
        => /\ IsRanking(ret[t].val, LogOf(t), GiftKey, GiftWeight, GiftKeyOf, ret[t].arg[2])
           /\ TopGiftsShape(ret[t].val)
           /\ Len(ret[t].val.items) <= ret[t].arg[2]

\* C9 as amended: the same for every limit >= 0.
C9_TopGifts ==
    \A t \in Threads :
        (ret[t].op = "get_top_gifts" /\ ret[t].arg[2] >= 0)
        => /\ IsRanking(ret[t].val, LogOf(t), GiftKey, GiftWeight, GiftKeyOf, ret[t].arg[2])
           /\ TopGiftsShape(ret[t].val)
           /\ Len(ret[t].val.items) <= ret[t].arg[2]

\* get_top_gifts(2) on a log of three groups returned two groups of equal count
C9_Witness ==
    \E t \in Threads :
        /\ ret[t].op = "get_top_gifts"
        /\ ret[t].arg[2] = 2
        /\ Cardinality({GiftKey(LogOf(t)[i]) : i \in DOMAIN LogOf(t)}) = 3
        /\ Len(ret[t].val.items) = 2
        /\ ret[t].val.items[1].items[3] = ret[t].val.items[2].items[3]

\* C10 as stated: for every log and every limit, get_top_users(limit) returns at
\* most limit (user_name, value) pairs, one per distinct user, value the sum of
\* gift_value * gift_count over the user's events, larger values first and equal
\* values in first-seen order; the call leaves the log and the totals unchanged.
C10_TopUsersAnyLimit ==
    /\ [](\A t \in Threads :
            ret[t].op = "get_top_users"
            => /\ IsRanking(ret[t].val, LogOf(t), UserKey, UserWeight, UserKeyOf,
                            ret[t].arg[2])
               /\ TopUsersShape(ret[t].val)
               /\ Len(ret[t].val.items) <= ret[t].arg[2])
    /\ [][\A t \in Threads :
            (ret'[t] # ret[t] /\ ret'[t].op \in {"get_top_users", "get_top_gifts"})
            => aggs' = aggs]_vars

\* C10 as amended: the same for every limit >= 0.
C10_TopUsers ==
    /\ [](\A t \in Threads :
            (ret[t].op = "get_top_users" /\ ret[t].arg[2] >= 0)
            => /\ IsRanking(ret[t].val, LogOf(t), UserKey, UserWeight, UserKeyOf,
                            ret[t].arg[2])
               /\ TopUsersShape(ret[t].val)
               /\ Len(ret[t].val.items) <= ret[t].arg[2])
    /\ [][\A t \in Threads :
            (ret'[t] # ret[t] /\ ret'[t].op \in {"get_top_users", "get_top_gifts"})
            => aggs' = aggs]_vars

\* get_top_users(2) on a log of three users returned two users of equal value
C10_Witness ==
    \E t \in Threads :
        /\ ret[t].op = "get_top_users"
        /\ ret[t].arg[2] = 2
        /\ Cardinality(get_unique_users(LogOf(t))) = 3
        /\ Len(ret[t].val.items) = 2
        /\ ret[t].val.items[1].items[2] = ret[t].val.items[2].items[2]

(* ------------------------------------------------- claims: storage failure *)
PublicOps ==
    {"start_session", "add_gift", "end_session", "get_active_session",
     "get_session_history"}

\* C11: every public operation returns a value on every path, also when its
\* durable read or write fails: nothing a caller gets back is an exception, and
\* an add_gift whose aggregate exists but whose INSERT failed returns False.
C11_NoErrorEscapes ==
    [][\A t \in Threads :
         /\ (ret'[t].op \in PublicOps) => ~ Raised(ret'[t])
         /\ (pc[t] = "ag_txn" /\ pc'[t] = "idle" /\ gifts' = gifts)
            => (~ Raised(ret'[t]) /\ ret'[t].val = FALSE)]_vars

(* ----------------------------------------------------- claims: interleaving *)
EndSessionLabels == {"es_uniq", "es_sum", "es_lock", "es_txn"}

\* end_session has popped the aggregate of session s, or has finalized its row
EvictedByEndSession(s) ==
    \/ \E t \in Threads : pc[t] \in EndSessionLabels /\ frame[t].stats = Some(s)
    \/ (s \in DOMAIN sessions /\ sessions[s].summary_json # None)

GiftRowsOf(tbl, s) == {k \in DOMAIN tbl : tbl[k].session_id = s}

\* C12: once end_session has evicted the aggregate of a session, no step appends
\* an event to that aggregate, and once the row has its terminal fields no step
\* inserts a gift row for its id; so when end_session returns, the finalized
\* total_gift_count counts every event of the aggregate it returns.
C12_NoWriteAfterEviction ==
    [][\A s \in SessionIds :
         /\ (EvictedByEndSession(s) /\ aggs[s] # None /\ aggs'[s] # None)
            => aggs'[s][1].gifts = aggs[s][1].gifts
         /\ (s \in DOMAIN sessions /\ sessions[s].summary_json # None)
            => GiftRowsOf(gifts', s) = GiftRowsOf(gifts, s)
         /\ \A t \in Threads :
              (pc[t] = "es_txn" /\ ret'[t].op = "end_session"
               /\ ret'[t].val = Some(s))
              => sessions'[s].total_gift_count
                   = SumSeq([i \in DOMAIN aggs'[s][1].gifts |->
                               aggs'[s][1].gifts[i].gift_count])]_vars

\* C13: the terminal fields of a session row are written at most once: once a
\* row's end_time is not NULL, no step of start_session or end_session changes
\* that row.
C13_TerminalFieldsWrittenOnce ==
    [][\A i \in DOMAIN sessions :
         sessions[i].end_time # None
         => (i \in DOMAIN sessions' /\ sessions'[i] = sessions[i])]_vars

\* the thread that takes a step of a method
Stepping(t) == pc'[t] # pc[t] \/ ret'[t] # ret[t]

\* C14: every step that changes the room-to-aggregate mapping is taken by a
\* thread that holds the lock when it takes it.
C14_MappingChangedUnderLock ==
    [][active' # active
       => \E t \in Threads : Stepping(t) /\ lock = Some(t)]_vars

\* no call on room r is under way
Quiet(r) == \A t \in Threads : pc[t] = "idle" \/ frame[t].room_id # r

\* C17: whenever no operation on room r is in progress and the mapping holds an
\* aggregate for r, that aggregate's session_id is the id of the one row of r
\* whose end_time is NULL.
C17_MappingPointsAtOpenRow ==
    \A r \in Rooms :
        (Quiet(r) /\ active[r] # None)
        => OpenSessions(r) = {aggs[active[r][1]][1].session_id}

LockLabels == {"ss_lock", "ag_lock", "es_lock", "gh_lock"}
TxnLabels == {"ss_txn", "ag_txn", "es_txn", "gh_txn"}

\* C16: at most one thread at a time is inside a durable transaction, and it
\* holds the lock all through it; every step that writes the sessions or gifts
\* table, and every step that reads them for start_session or
\* get_session_history, is taken by the thread that holds the lock, inside its
\* locked section.
C16_TransactionsUnderLock ==
    /\ [](\A t \in Threads : pc[t] \in TxnLabels => lock = Some(t))
    /\ [](Cardinality({t \in Threads : pc[t] \in TxnLabels}) <= 1)
    /\ [][/\ (sessions' # sessions \/ gifts' # gifts)
             => \E t \in Threads :
                   Stepping(t) /\ pc[t] \in TxnLabels /\ lock = Some(t)
          /\ \A t \in Threads :
                (ret'[t] # ret[t] /\ ret'[t].op = "get_session_history")
                => (pc[t] = "gh_txn" /\ lock = Some(t))
          /\ \A t \in Threads :
                (pc[t] \in TxnLabels /\ pc'[t] \notin TxnLabels)
                => (lock = Some(t) /\ lock' = None)]_vars

\* one thread is inside the transaction of end_session while the other waits
\* for the lock to read the history
C16_Witness ==
    \E t, u \in Threads :
        /\ pc[t] = "es_txn" /\ lock = Some(t)
        /\ pc[u] = "gh_lock"
        /\ Len(gifts) > 0

GiftTuple(g) == << g.user_name, g.gift_name, g.gift_count, g.gift_value >>

\* how many entries of the sequence s of gifts have the tuple x
CountOf(s, x) == Cardinality({k \in DOMAIN s : GiftTuple(s[k]) = x})

\* the rows of table tbl stored for session s, in the order of the table
RowsOfSession(tbl, s) ==
    LET keep(k) == tbl[k].session_id = s
        F[n \in 0 .. Len(tbl)] ==
            IF n = 0 THEN << >>
            ELSE IF keep(n) THEN Append(F[n - 1], tbl[n]) ELSE F[n - 1]
    IN F[Len(tbl)]

NoAddGiftOn(s) ==
    ~ \E t \in Threads : pc[t] \in AddGiftLabels /\ frame[t].stats = Some(s)

\* the gift rows of every session with an aggregate are its log, as a multiset
RowsMirrorLog ==
    \A s \in SessionIds :
        (aggs[s] # None /\ NoAddGiftOn(s))
        => LET rows == RowsOfSession(gifts, s)
               log == aggs[s][1].gifts
           IN /\ Len(rows) = Len(log)
              /\ \A k \in DOMAIN log :
                    CountOf(rows, GiftTuple(log[k])) = CountOf(log, GiftTuple(log[k]))

\* a row finalized by end_session counts the gifts of its gift rows
FinalizedCountIsRowSum ==
    \A s \in DOMAIN sessions :
        (sessions[s].summary_json # None /\ NoAddGiftOn(s))
        => LET rows == RowsOfSession(gifts, s)
           IN sessions[s].total_gift_count
                = SumSeq([k \in DOMAIN rows |-> rows[k].gift_count])

\* C18: with no storage failure and no add_gift under way, the gift rows stored
\* for a session are, as a multiset of (user_name, gift_name, gift_count,
\* gift_value), the events of its aggregate's log; and a session finalized by
\* end_session has total_gift_count equal to the sum of gift_count over its gift
\* rows.
C18_GiftRowsMirrorLog == RowsMirrorLog /\ FinalizedCountIsRowSum

(* ------------------------------------------- claims: start on an active room *)
\* C19: start_session(r) on a room that has a registered aggregate closes the
\* previous session's row with total_gift_count 0 and no summary, whatever gifts
\* were recorded for it, leaves the previous aggregate as it was, and registers
\* a new aggregate with the new session id, an empty log and zero totals; from
\* then on add_gift(r) appends to the registered aggregate only and stores its
\* row under the registered session's id.
C19_StartOnActiveRoomReplaces ==
    /\ [](\A i \in DOMAIN sessions :
            (sessions[i].end_time # None /\ sessions[i].summary_json = None)
            => (sessions[i].total_gift_count = 0 /\ sessions[i].total_gift_value = 0))
    /\ [][\A t \in Threads :
            LET r == frame[t].room_id
            IN /\ (pc[t] = "ss_txn" /\ pc'[t] = "ss_reg" /\ active[r] # None)
                  => LET old == active[r][1]
                     IN /\ sessions[old].end_time = None
                        /\ sessions'[old].end_time # None
                        /\ sessions'[old].total_gift_count = 0
                        /\ sessions'[old].summary_json = None
                        /\ aggs' = aggs
               /\ (pc[t] = "ss_reg" /\ ret'[t].op = "start_session" /\ ret'[t] # ret[t])
                  => LET new == ret'[t].val[1]
                     IN /\ new = Len(sessions)
                        /\ sessions[new].end_time = None
                        /\ active[r] # Some(new)
                        /\ active'[r] = Some(new)
                        /\ aggs'[new] = Some(SessionStats(new, r, sessions[new].start_time))
                        /\ \A s \in SessionIds \ {new} : aggs'[s] = aggs[s]
               /\ (pc[t] = "ag_app" /\ pc'[t] = "ag_cnt")
                  => \A s \in SessionIds :
                        aggs'[s] # aggs[s] => active[r] = Some(s)
               /\ (pc[t] = "ag_txn" /\ gifts' # gifts)
                  => /\ active[r] # None
                     /\ gifts'[Len(gifts')].session_id = active[r][1]]_vars

\* start_session has just replaced the aggregate of a session that had one gift
\* recorded: the old aggregate still counts it, the old row is closed with
\* total_gift_count 0 and no summary, and the new aggregate is empty
C19_Witness ==
    \E t \in Threads :
        /\ ret[t].op = "start_session" /\ ret[t].val = Some(2)
        /\ active[ret[t].arg[1]] = Some(2)
        /\ aggs[1] # None /\ aggs[1][1].total_gift_count > 0
        /\ aggs[1][1].room_id = ret[t].arg[1]
        /\ Len(RowsOfSession(gifts, 1)) = 1
        /\ sessions[1].end_time # None
        /\ sessions[1].total_gift_count = 0
        /\ sessions[1].summary_json = None
        /\ aggs[2] = Some(SessionStats(2, ret[t].arg[1], sessions[2].start_time))

====
